---- MODULE Spec2Model ----
(***************************************************************************)
(* The workflow designer of the administration console                     *)
(* (frontend/src/views-admin/module_application/workflow/index.vue): the   *)
(* node/edge graph, the selection and its configuration panels, the        *)
(* undo/redo history, the clipboard, palette drag and drop, templates,     *)
(* local save/load and JSON import.                                        *)
(*                                                                         *)
(* JavaScript values are modelled as follows.                              *)
(*  - An object is a record; a missing key is a missing field.  A key      *)
(*    whose value is the JavaScript undefined is a field holding Undefined.*)
(*  - A value that the code expects to be an array (nodes, edges) is a     *)
(*    record [kind, items]: kind "list" with the array in items, or one of *)
(*    "truthy" (a non-array value that converts to true, such as 1 or      *)
(*    {}), "falsy" (null, 0, "", false) and "undefined" (the key is        *)
(*    absent), all three with no items.                                    *)
(*  - The Chinese string literals of the source (labels, notices) are      *)
(*    written in English; every other literal is the source's.             *)
(*  - The graph store of the canvas component and the refs nodes and edges *)
(*    bound to it are one graph: getNodes.value is nodes.value, and        *)
(*    addNodes, setNodes, addEdges, setEdges and updateNode act on it.     *)
(*  - A collection method (filter, spread, push) applied to a value that   *)
(*    is not an array raises TypeError; the handler stops at that          *)
(*    statement and what it assigned before stays assigned.                *)
(***************************************************************************)
EXTENDS Integers, Sequences, FiniteSets, TLC

\* ------------------------------------------------------------------ bounds
\* user events in one run of the editor specification
MaxOps == 4
\* largest value of the clock Date.now() reads
MaxNow == 1
\* file reads that can be in flight together
MaxReads == 1
\* one-pixel drags of the history specification (more than maxHistory)
MaxMoves == 52

\* ------------------------------------------------------- program constants
\* index.vue:421
maxHistory == 50

\* the JavaScript undefined, as the value of an object key
Undefined == "undefined"
\* the JavaScript null, as the value of a ref
Null == [null |-> TRUE]
\* the empty object {}
EmptyObject == [k \in {} |-> k]

\* o.k of the source: undefined when the key is missing
Field(o, k) == IF k \in DOMAIN o THEN o[k] ELSE Undefined
IdOf(o) == Field(o, "id")

\* ---------------------------------------------------------- JSON values
List(s) == [kind |-> "list", items |-> s]
Truthy == [kind |-> "truthy", items |-> <<>>]
Falsy == [kind |-> "falsy", items |-> <<>>]
Absent == [kind |-> "undefined", items |-> <<>>]
IsList(v) == v.kind = "list"
\* a presence test in place of the truth test
isPresent(v) == v.kind # "undefined"

\* the truth value of v in a JavaScript condition (an array is truthy)
ToBoolean(v) == v.kind \in {"list", "truthy"}

\* JSON.stringify leaves out the keys whose value is undefined
DropUndefined(o) == [k \in {f \in DOMAIN o : o[f] # Undefined} |-> o[k]]

\* JSON.parse(JSON.stringify(n)) of one node or edge.  The only keys the
\* code ever sets to undefined are keys of the data payload (onDragStart),
\* so that is where keys are dropped.
CopyEntity(n) ==
  IF "data" \in DOMAIN n THEN [n EXCEPT !.data = DropUndefined(n.data)] ELSE n

\* JSON.stringify(undefined) is undefined, which JSON.parse rejects
CanCopy(v) == v.kind # "undefined"

\* JSON.parse(JSON.stringify(v)) of a nodes or edges value
JsonCopy(v) ==
  IF IsList(v)
    THEN List([i \in 1..Len(v.items) |-> CopyEntity(v.items[i])])
    ELSE v

\* ------------------------------------------------------------ seed graph
Pos(px, py) == [x |-> px, y |-> py]

seedNodes ==
  << [id |-> "start", type |-> "input", data |-> [label |-> "Start"],
      position |-> Pos(400, 50), class |-> "round-start"],
     [id |-> "task1", type |-> "task",
      data |-> [label |-> "Submit request", assignee |-> "Zhang San", priority |-> "high"],
      position |-> Pos(350, 150)],
     [id |-> "approval1", type |-> "approval",
      data |-> [label |-> "Manager approval", approver |-> "Manager A", approvalType |-> "single"],
      position |-> Pos(350, 250)],
     [id |-> "condition1", type |-> "condition",
      data |-> [label |-> "Amount check", condition |-> "amount > 10000"],
      position |-> Pos(350, 370)],
     [id |-> "task2", type |-> "task",
      data |-> [label |-> "Director approval", assignee |-> "Li Si", priority |-> "high"],
      position |-> Pos(200, 500)],
     [id |-> "notification1", type |-> "notification",
      data |-> [label |-> "Send notice", notifyType |-> "email", recipients |-> "user@example.com"],
      position |-> Pos(500, 500)],
     [id |-> "timer1", type |-> "timer", data |-> [label |-> "Delay", delay |-> "30"],
      position |-> Pos(350, 620)],
     [id |-> "end", type |-> "output", data |-> [label |-> "End"],
      position |-> Pos(400, 750), class |-> "round-stop"] >>

Edge(i, s, t, l) == [id |-> i, type |-> "smoothstep", source |-> s, target |-> t, label |-> l]

seedEdges ==
  << Edge("e-start-task1", "start", "task1", "Begin"),
     Edge("e-task1-approval1", "task1", "approval1", "Submit"),
     Edge("e-approval1-condition1", "approval1", "condition1", "Approved"),
     Edge("e-condition1-task2", "condition1", "task2", "Large"),
     Edge("e-condition1-notification1", "condition1", "notification1", "Small"),
     Edge("e-task2-timer1", "task2", "timer1", "Done"),
     Edge("e-notification1-timer1", "notification1", "timer1", "Sent"),
     Edge("e-timer1-end", "timer1", "end", "Finish") >>

\* ------------------------------------------------------------- variables
VARIABLES
  nodes,          \* ref nodes: the live node collection
  edges,          \* ref edges: the live edge collection
  history,        \* ref history: the stored snapshots, oldest first
  historyIndex,   \* ref historyIndex: 0-based index of the current snapshot
  updateState,    \* "", "node" or "edge": which panel is shown
  selectedNode,   \* ref selectedNode: a node, or {}
  selectedEdge,   \* ref selectedEdge: an edge, or {}
  clipboard,      \* ref clipboard: a node, or null
  dragItem,       \* ref dragItem: the pending node of a palette drag, or null
  storage,        \* localStorage item "workflowData"
  dialog,         \* the open confirmation box, if any
  reading,        \* file contents handed to a FileReader, not yet loaded
  initHooks,      \* callbacks registered with onNodesInitialized, not yet run
  now,            \* the clock Date.now() reads
  paneReady,      \* the canvas has fired its init event
  last,           \* the handler that ran last, its notice, its completed records
  ops,            \* user events so far
  trip            \* progress of a run of N mutations, N undos and N redos

vars == << nodes, edges, history, historyIndex, updateState, selectedNode,
           selectedEdge, clipboard, dragItem, storage, dialog, reading,
           initHooks, now, paneReady, last, ops, trip >>

graphVars == << nodes, edges >>
historyVars == << history, historyIndex >>
selectionVars == << updateState, selectedNode, selectedEdge >>
uiVars == << clipboard, dragItem, dialog >>
envVars == << storage, reading, initHooks, now >>

\* ------------------------------------------------------------- notices
NoNotice == [type |-> "none", text |-> ""]
Notice(t, m) == [type |-> t, text |-> m]
\* the handler op ran, showed notice n, completed r calls of saveToHistory and
\* (m) did or did not execute a statement that writes the graph; redoTail is
\* the number of snapshots that lay beyond the index when the handler began
Did(op, n, r, m) ==
  last' = [op |-> op, notice |-> n, recorded |-> r, mutated |-> m,
           redoTail |-> Len(history) - 1 - historyIndex]

\* a confirmation box is modal: no other user event arrives while it is open
NoDialog == [cmd |-> "none"]
NoBox == dialog = NoDialog

\* ------------------------------------------------------------- history
\* saveToHistory, the state it stores
snapshot(n, e) == [nodes |-> JsonCopy(n), edges |-> JsonCopy(e)]

\* the redo tail is kept
truncateNever(h, i) == h

\* saveToHistory, dropping the redo tail
truncate(h, i) == IF i < Len(h) - 1 THEN SubSeq(h, 1, i + 1) ELSE h

\* the index advances even when the oldest snapshot is evicted
evictAndAdvance(h, i) ==
  IF Len(h) > maxHistory
    THEN [history |-> Tail(h), historyIndex |-> i + 1]
    ELSE [history |-> h, historyIndex |-> i + 1]

\* the newest snapshot is the one evicted
evictNewest(h, i) ==
  IF Len(h) > maxHistory
    THEN [history |-> SubSeq(h, 1, Len(h) - 1), historyIndex |-> i]
    ELSE [history |-> h, historyIndex |-> i + 1]

\* saveToHistory, after the push: evict the oldest or advance the index
evict(h, i) ==
  IF Len(h) > maxHistory
    THEN [history |-> Tail(h), historyIndex |-> i]
    ELSE [history |-> h, historyIndex |-> i + 1]

\* saveToHistory throws before it touches history when a value cannot be copied
Recordable(n, e) == CanCopy(n) /\ CanCopy(e)

\* the record is written over the snapshot at the index
overwriteCurrent(h, i, n, e) ==
  IF i < 0 THEN [history |-> << snapshot(n, e) >>, historyIndex |-> 0]
  ELSE [history |-> [h EXCEPT ![i + 1] = snapshot(n, e)], historyIndex |-> i]

saveToHistory(h, i, n, e) == evict(Append(truncate(h, i), snapshot(n, e)), i)

\* history.value[i] of the source (0-based)
At(h, i) == h[i + 1]

\* the call saveToHistory() made with the graph n, e
Record(n, e) ==
  /\ history' = saveToHistory(history, historyIndex, n, e).history
  /\ historyIndex' = saveToHistory(history, historyIndex, n, e).historyIndex

\* undo refuses one step early
canUndoLate(h, i) == i > 1

canUndo(h, i) == i > 0
canRedo(h, i) == i < Len(h) - 1

onInit ==
  /\ ~paneReady
  /\ paneReady' = TRUE
  /\ IF Recordable(nodes, edges)
       THEN Record(nodes, edges) /\ Did("onInit", NoNotice, 1, FALSE)
       ELSE UNCHANGED historyVars /\ Did("onInit", NoNotice, 0, FALSE)
  /\ UNCHANGED << graphVars, selectionVars, uiVars, envVars >>

undo ==
  /\ NoBox
  /\ IF canUndo(history, historyIndex)
       THEN /\ historyIndex' = historyIndex - 1
            /\ nodes' = JsonCopy(At(history, historyIndex - 1).nodes)
            /\ edges' = JsonCopy(At(history, historyIndex - 1).edges)
            /\ Did("undo", Notice("success", "undone"), 0, FALSE)
       ELSE /\ UNCHANGED << historyIndex, graphVars >>
            /\ Did("undo", Notice("warning", "nothing to undo"), 0, FALSE)
  /\ UNCHANGED << history, selectionVars, uiVars, envVars, paneReady >>

redo ==
  /\ NoBox
  /\ IF canRedo(history, historyIndex)
       THEN /\ historyIndex' = historyIndex + 1
            /\ nodes' = JsonCopy(At(history, historyIndex + 1).nodes)
            /\ edges' = JsonCopy(At(history, historyIndex + 1).edges)
            /\ Did("redo", Notice("success", "redone"), 0, FALSE)
       ELSE /\ UNCHANGED << historyIndex, graphVars >>
            /\ Did("redo", Notice("warning", "nothing to redo"), 0, FALSE)
  /\ UNCHANGED << history, selectionVars, uiVars, envVars, paneReady >>

\* the nodes with the first node of id i moved to position p
moveNode(ns, i, p) ==
  LET hit == {k \in 1..Len(ns) : IdOf(ns[k]) = i}
      first == CHOOSE k \in hit : \A m \in hit : k <= m
  IN  IF hit = {} THEN ns ELSE [ns EXCEPT ![first].position = p]

\* the canvas has moved node i to p by the time the drag-stop event arrives
onNodeDragStop(i, p) ==
  /\ NoBox
  /\ paneReady
  /\ IsList(nodes)
  /\ \E k \in 1..Len(nodes.items) : IdOf(nodes.items[k]) = i
  /\ nodes' = List(moveNode(nodes.items, i, p))
  /\ edges' = edges
  /\ IF Recordable(nodes', edges')
       THEN Record(nodes', edges') /\ Did("onNodeDragStop", NoNotice, 1, TRUE)
       ELSE UNCHANGED historyVars /\ Did("onNodeDragStop", NoNotice, 0, TRUE)
  /\ UNCHANGED << selectionVars, uiVars, envVars, paneReady >>

\* ---------------------------------------------------------- object access
\* a || b on strings: undefined and "" are falsy
OrElse(a, b) == IF a = Undefined \/ a = "" THEN b ELSE a
\* { ...o, k: v }
With(o, k, v) == [f \in DOMAIN o \cup {k} |-> IF f = k THEN v ELSE o[f]]
\* { ...a, ...b }: the keys of b overwrite, the other keys of a stay
Merge(a, b) == [f \in DOMAIN a \cup DOMAIN b |-> IF f \in DOMAIN b THEN b[f] ELSE a[f]]

\* the nodes and edges a pointer can hit: the first MaxClick items and the last
MaxClick == 2
Reachable(s) == {k \in 1..Len(s) : k <= MaxClick \/ k = Len(s)}

\* the handler wrote the graph n, e and then called saveToHistory(); ok is
\* the notice when it returned, bad the notice when it threw
Commit(op, n, e, ok, bad) ==
  /\ nodes' = n
  /\ edges' = e
  /\ IF Recordable(n, e)
       THEN Record(n, e) /\ Did(op, ok, 1, TRUE)
       ELSE UNCHANGED historyVars /\ Did(op, bad, 0, TRUE)

\* the handler stopped before it wrote anything
Nothing(op, n) ==
  /\ UNCHANGED << graphVars, historyVars >>
  /\ Did(op, n, 0, FALSE)

\* -------------------------------------------------------------- selection
onNodeClick ==
  /\ NoBox
  /\ paneReady
  /\ IsList(nodes)
  /\ \E k \in Reachable(nodes.items) :
       /\ selectedNode' = nodes.items[k]
       /\ updateState' = "node"
  /\ Nothing("onNodeClick", NoNotice)
  /\ UNCHANGED << selectedEdge, uiVars, envVars, paneReady >>

onEdgeClick ==
  /\ NoBox
  /\ paneReady
  /\ IsList(edges)
  /\ \E k \in Reachable(edges.items) :
       /\ selectedEdge' = edges.items[k]
       /\ updateState' = "edge"
  /\ Nothing("onEdgeClick", NoNotice)
  /\ UNCHANGED << selectedNode, uiVars, envVars, paneReady >>

\* closing hides the panel and keeps the selected node
closeKeepsNode ==
  /\ NoBox
  /\ updateState # ""
  /\ updateState' = ""
  /\ selectedEdge' = EmptyObject
  /\ Nothing("handleClosePanel", NoNotice)
  /\ UNCHANGED << selectedNode, uiVars, envVars, paneReady >>

\* the close button of the panel that is shown
handleClosePanel ==
  /\ NoBox
  /\ updateState # ""
  /\ updateState' = ""
  /\ selectedNode' = EmptyObject
  /\ selectedEdge' = EmptyObject
  /\ Nothing("handleClosePanel", NoNotice)
  /\ UNCHANGED << uiVars, envVars, paneReady >>

\* -------------------------------------------------------------- clipboard
\* Ctrl/Cmd+C, which handleKeyDown passes on when selectedNode has an id
handleCopy ==
  /\ NoBox
  /\ IdOf(selectedNode) # Undefined
  /\ clipboard' = CopyEntity(selectedNode)
  /\ Nothing("handleCopy", Notice("success", "node copied"))
  /\ UNCHANGED << selectionVars, dragItem, dialog, envVars, paneReady >>

newId(t) == "node-" \o ToString(t)

\* addNodes of the canvas: the node joins the end of the collection. What the
\* canvas does with a node that has no id is not fixed by this repository, so
\* such a node is either added or refused
addNodes(ns, n) ==
  IF IdOf(n) = Undefined THEN { Append(ns, n), ns } ELSE { Append(ns, n) }

pasted(c, t) ==
  With(With(c, "id", newId(t)), "position", Pos(c.position.x + 50, c.position.y + 50))

\* Ctrl/Cmd+V, which handleKeyDown passes on when the clipboard is not null
handlePaste ==
  /\ NoBox
  /\ clipboard # Null
  /\ IF IsList(nodes)
       THEN /\ \E added \in addNodes(nodes.items, pasted(clipboard, now)) :
                 Commit("handlePaste", List(added), edges,
                        Notice("success", "node pasted"), NoNotice)
            /\ selectedNode' = pasted(clipboard, now)
            /\ updateState' = "node"
       ELSE /\ Nothing("handlePaste", NoNotice)
            /\ UNCHANGED << selectedNode, updateState >>
  /\ UNCHANGED << selectedEdge, uiVars, envVars, paneReady >>

\* ---------------------------------------------------------- drag and drop
\* palette entries: a fixed entry is a string, a typed entry an element of
\* processNodes, a user-defined entry an element of customNodes
paletteItems ==
  { [text |-> "Start"],
    [type |-> "task", label |-> "Task node", class |-> "task-drag-item"],
    [name |-> "Test 1"] }

\* where the pointer is when a palette drag starts
dragPointer == Pos(40, 200)

typed(item, t, v) == IF Field(item, "type") = t THEN v ELSE Undefined

pending(item, t) ==
  IF "text" \in DOMAIN item
    THEN [id |-> newId(t),
          data |-> [label |-> item.text],
          type |-> IF item.text = "Start" THEN "input"
                   ELSE IF item.text = "End" THEN "output" ELSE "custom",
          position |-> dragPointer,
          class |-> IF item.text = "Start" THEN "round-start"
                    ELSE IF item.text = "End" THEN "round-stop" ELSE "light"]
    ELSE [id |-> newId(t),
          data |-> [label |-> OrElse(Field(item, "label"), Field(item, "name")),
                    assignee |-> typed(item, "task", "Unassigned"),
                    priority |-> typed(item, "task", "medium"),
                    approver |-> typed(item, "approval", "To be assigned"),
                    approvalType |-> typed(item, "approval", "single"),
                    notifyType |-> typed(item, "notification", "email"),
                    recipients |-> typed(item, "notification", ""),
                    delay |-> typed(item, "timer", "0"),
                    condition |-> typed(item, "condition", ""),
                    branchCount |-> typed(item, "parallel", "2")],
          type |-> OrElse(Field(item, "type"), "custom"),
          position |-> dragPointer,
          class |-> OrElse(Field(item, "class"), "light")]

onDragStart ==
  /\ NoBox
  /\ \E item \in paletteItems : dragItem' = pending(item, now)
  /\ Nothing("onDragStart", NoNotice)
  /\ UNCHANGED << selectionVars, clipboard, dialog, envVars, paneReady >>

\* a drag end that keeps the pending descriptor
dragEndKeeps ==
  /\ NoBox
  /\ dragItem # Null
  /\ dragItem' = dragItem
  /\ Nothing("onDragEnd", NoNotice)
  /\ UNCHANGED << selectionVars, clipboard, dialog, envVars, paneReady >>

\* the drag ended, on the canvas or off it
onDragEnd ==
  /\ NoBox
  /\ dragItem # Null
  /\ dragItem' = Null
  /\ Nothing("onDragEnd", NoNotice)
  /\ UNCHANGED << selectionVars, clipboard, dialog, envVars, paneReady >>

\* the canvas coordinates screenToFlowCoordinate returns for the pointer
dropPositions == { Pos(120, 300) }

\* { ...dragItem.value, position }: spreading null adds no key
dropped(d, p) == IF d = Null THEN [position |-> p] ELSE With(d, "position", p)

onDrop ==
  /\ NoBox
  /\ paneReady
  /\ \E p \in dropPositions :
       IF IsList(nodes)
         THEN \E added \in addNodes(nodes.items, dropped(dragItem, p)) :
                Commit("onDrop", List(added), edges, NoNotice, NoNotice)
         ELSE Nothing("onDrop", NoNotice)
  /\ initHooks' = initHooks + 1
  /\ dragItem' = Null
  /\ UNCHANGED << selectionVars, clipboard, dialog, storage, reading, now, paneReady >>

\* the width and height the canvas measures for a rendered node
renderedSizes == { [width |-> 120, height |-> 40] }

\* updateNode(id, fn) with the re-centring function of onDrop: the first node
\* with that id moves up and left by half its size; no such node, no change
recentre(ns, i, d) ==
  LET hit == {k \in 1..Len(ns) : IdOf(ns[k]) = i}
      first == CHOOSE k \in hit : \A m \in hit : k <= m
  IN  IF i = Undefined \/ hit = {}
        THEN ns
        ELSE [ns EXCEPT ![first].position =
                Pos(ns[first].position.x - d.width \div 2,
                    ns[first].position.y - d.height \div 2)]

RECURSIVE recentreTimes(_, _, _, _)
recentreTimes(ns, i, d, k) ==
  IF k = 0 THEN ns ELSE recentreTimes(recentre(ns, i, d), i, d, k - 1)

\* the canvas reports its nodes initialised: every callback onDrop registered
\* runs once, with the id dragItem holds now, and unregisters itself
onNodesInitialized ==
  /\ initHooks > 0
  /\ IsList(nodes)
  /\ \E d \in renderedSizes :
       nodes' = List(recentreTimes(nodes.items,
                                   IF dragItem = Null THEN Undefined ELSE IdOf(dragItem),
                                   d, initHooks))
  /\ initHooks' = 0
  /\ Did("onNodesInitialized", NoNotice, 0, nodes' # nodes)
  /\ UNCHANGED << edges, historyVars, selectionVars, uiVars, storage, reading, now, paneReady >>

\* the clock advances
tick ==
  /\ now < MaxNow
  /\ now' = now + 1
  /\ UNCHANGED << graphVars, historyVars, selectionVars, uiVars, storage, reading,
                  initHooks, paneReady, last >>

\* ------------------------------------------------------------- the panels
DataOf(o) == IF "data" \in DOMAIN o THEN o.data ELSE EmptyObject

\* formData of NodeConfigPanel, filled from the node the panel is given
nodeForm(n) ==
  LET d == DataOf(n)
  IN  [label |-> OrElse(Field(d, "label"), ""),
       assignee |-> OrElse(Field(d, "assignee"), ""),
       priority |-> OrElse(Field(d, "priority"), "medium"),
       approver |-> OrElse(Field(d, "approver"), ""),
       approvalType |-> OrElse(Field(d, "approvalType"), "single"),
       notifyType |-> OrElse(Field(d, "notifyType"), "email"),
       recipients |-> OrElse(Field(d, "recipients"), ""),
       delay |-> OrElse(Field(d, "delay"), "0"),
       condition |-> OrElse(Field(d, "condition"), ""),
       branchCount |-> OrElse(Field(d, "branchCount"), "2"),
       description |-> OrElse(Field(d, "description"), "")]

\* what the user types into the node form before saving
nodeEdits == { [label |-> "Reviewed"] }

\* the nodes or edges whose id is not i
without(s, i) == SelectSeq(s, LAMBDA n : IdOf(n) # i)

savedNode(sel, data) == With(sel, "data", Merge(DataOf(sel), data))

\* the save button of the node panel
handleSaveNode ==
  /\ NoBox
  /\ updateState = "node"
  /\ \E edit \in nodeEdits :
       IF IsList(nodes)
         THEN Commit("handleSaveNode",
                     List(Append(without(nodes.items, IdOf(selectedNode)),
                                 savedNode(selectedNode, Merge(nodeForm(selectedNode), edit)))),
                     edges, Notice("success", "saved"), Notice("success", "saved"))
         ELSE Nothing("handleSaveNode", Notice("success", "saved"))
  /\ UNCHANGED << selectionVars, uiVars, envVars, paneReady >>

\* formData of EdgeConfigPanel, filled from the edge the panel is given
edgeForm(e) ==
  LET st == IF "style" \in DOMAIN e THEN e.style ELSE EmptyObject
      d == DataOf(e)
  IN  [label |-> OrElse(Field(e, "label"), ""),
       type |-> OrElse(Field(e, "type"), "smoothstep"),
       color |-> OrElse(Field(st, "stroke"), "#000000"),
       strokeWidth |-> OrElse(Field(st, "strokeWidth"), "2"),
       animated |-> IF "animated" \in DOMAIN e THEN e.animated ELSE "false",
       condition |-> OrElse(Field(d, "condition"), ""),
       description |-> OrElse(Field(d, "description"), "")]

\* what the user types into the edge form before saving
edgeEdits == { [label |-> "Yes", condition |-> "ok"] }

savedEdge(sel, data) ==
  Merge(sel, [label |-> data.label,
              type |-> data.type,
              animated |-> data.animated,
              style |-> [stroke |-> data.color, strokeWidth |-> data.strokeWidth],
              data |-> [condition |-> data.condition, description |-> data.description]])

\* the save button of the edge panel
handleSaveEdge ==
  /\ NoBox
  /\ updateState = "edge"
  /\ \E edit \in edgeEdits :
       IF IsList(edges)
         THEN Commit("handleSaveEdge", nodes,
                     List(Append(without(edges.items, IdOf(selectedEdge)),
                                 savedEdge(selectedEdge, Merge(edgeForm(selectedEdge), edit)))),
                     Notice("success", "saved"), Notice("success", "saved"))
         ELSE Nothing("handleSaveEdge", Notice("success", "saved"))
  /\ UNCHANGED << selectionVars, uiVars, envVars, paneReady >>

\* ------------------------------------------------------ confirmation boxes
\* the request opens the box and closes the panel at once
askAndClose(c) ==
  /\ NoBox
  /\ dialog' = c
  /\ updateState' = ""
  /\ selectedNode' = EmptyObject
  /\ selectedEdge' = EmptyObject
  /\ Nothing(c.cmd, NoNotice)
  /\ UNCHANGED << clipboard, dragItem, envVars, paneReady >>

\* ElMessageBox.confirm opens a box; its then-callback runs on confirmation
ask(c) ==
  /\ NoBox
  /\ dialog' = c
  /\ Nothing(c.cmd, NoNotice)
  /\ UNCHANGED << selectionVars, clipboard, dragItem, envVars, paneReady >>

\* the delete button of the node panel, or Delete/Backspace with a node selected
handleDeleteNode == updateState = "node" /\ ask([cmd |-> "handleDeleteNode"])

\* the delete button of the edge panel, or Delete/Backspace with an edge selected
handleDeleteEdge == updateState = "edge" /\ ask([cmd |-> "handleDeleteEdge"])

handleClear == ask([cmd |-> "handleClear"])

\* the box is dismissed: the then-callback never runs
cancel ==
  /\ ~NoBox
  /\ dialog' = NoDialog
  /\ Nothing("cancel", NoNotice)
  /\ UNCHANGED << selectionVars, clipboard, dragItem, envVars, paneReady >>

\* the nodes left when the node with id i is deleted
removeNode(ns, i) == without(ns, i)

\* only the outgoing edges go
cascadeOutgoing(es, i) == SelectSeq(es, LAMBDA e : Field(e, "source") # i)

\* the edges left when the node with id i is deleted
cascade(es, i) ==
  SelectSeq(es, LAMBDA e : Field(e, "source") # i /\ Field(e, "target") # i)

confirmDeleteNode ==
  /\ dialog = [cmd |-> "handleDeleteNode"]
  /\ dialog' = NoDialog
  /\ IF ~IsList(nodes)
       THEN /\ Nothing("confirmDeleteNode", NoNotice)
            /\ UNCHANGED selectionVars
       ELSE IF ~IsList(edges)
         THEN /\ nodes' = List(removeNode(nodes.items, IdOf(selectedNode)))
              /\ UNCHANGED << edges, historyVars, selectionVars >>
              /\ Did("confirmDeleteNode", NoNotice, 0, TRUE)
         ELSE /\ Commit("confirmDeleteNode",
                        List(removeNode(nodes.items, IdOf(selectedNode))),
                        List(cascade(edges.items, IdOf(selectedNode))),
                        Notice("success", "node deleted"), Notice("success", "node deleted"))
              /\ updateState' = ""
              /\ selectedNode' = EmptyObject
              /\ selectedEdge' = EmptyObject
  /\ UNCHANGED << clipboard, dragItem, envVars, paneReady >>

confirmDeleteEdge ==
  /\ dialog = [cmd |-> "handleDeleteEdge"]
  /\ dialog' = NoDialog
  /\ IF ~IsList(edges)
       THEN /\ Nothing("confirmDeleteEdge", NoNotice)
            /\ UNCHANGED selectionVars
       ELSE /\ Commit("confirmDeleteEdge", nodes,
                      List(without(edges.items, IdOf(selectedEdge))),
                      Notice("success", "edge deleted"), Notice("success", "edge deleted"))
            /\ updateState' = ""
            /\ selectedNode' = EmptyObject
            /\ selectedEdge' = EmptyObject
  /\ UNCHANGED << clipboard, dragItem, envVars, paneReady >>

confirmClear ==
  /\ dialog = [cmd |-> "handleClear"]
  /\ dialog' = NoDialog
  /\ Commit("confirmClear", List(<< >>), List(<< >>),
            Notice("success", "canvas cleared"), NoNotice)
  /\ UNCHANGED << selectionVars, clipboard, dragItem, envVars, paneReady >>

\* ---------------------------------------------------------------- connect
defaultEdgeOptions ==
  [type |-> "smoothstep", animated |-> "true",
   markerEnd |-> [type |-> "arrowclosed", color |-> "black"]]

\* addEdges of the canvas: the connection becomes an edge with the default
\* options, unless an edge between the same two nodes is there already
addEdges(es, s, t) ==
  IF \E k \in 1..Len(es) : Field(es[k], "source") = s /\ Field(es[k], "target") = t
    THEN es
    ELSE Append(es, Merge(defaultEdgeOptions,
                          [id |-> "vueflow__edge-" \o s \o "-" \o t,
                           source |-> s, target |-> t]))

\* the user draws a connection between two nodes of the canvas
onConnect ==
  /\ NoBox
  /\ paneReady
  /\ IsList(nodes)
  /\ \E s \in Reachable(nodes.items), t \in Reachable(nodes.items) :
       /\ s < t
       /\ IdOf(nodes.items[s]) # Undefined
       /\ IdOf(nodes.items[t]) # Undefined
       /\ IF IsList(edges)
            THEN Commit("onConnect", nodes,
                        List(addEdges(edges.items, nodes.items[s].id, nodes.items[t].id)),
                        NoNotice, NoNotice)
            ELSE Nothing("onConnect", NoNotice)
  /\ UNCHANGED << selectionVars, uiVars, envVars, paneReady >>

\* -------------------------------------------------------------- templates
templates ==
  [approval |->
     [name |-> "Approval flow",
      nodes |->
        << [id |-> "start", type |-> "input", data |-> [label |-> "Start"],
            position |-> Pos(400, 50), class |-> "round-start"],
           [id |-> "task1", type |-> "task",
            data |-> [label |-> "Submit request", assignee |-> "Applicant", priority |-> "medium"],
            position |-> Pos(350, 150)],
           [id |-> "approval1", type |-> "approval",
            data |-> [label |-> "Department approval", approver |-> "Department manager",
                      approvalType |-> "single"],
            position |-> Pos(350, 250)],
           [id |-> "end", type |-> "output", data |-> [label |-> "End"],
            position |-> Pos(400, 350), class |-> "round-stop"] >>,
      edges |->
        << Edge("e-start-task1", "start", "task1", "Begin"),
           Edge("e-task1-approval1", "task1", "approval1", "Submit"),
           Edge("e-approval1-end", "approval1", "end", "Approved") >>],
   parallel |->
     [name |-> "Parallel processing",
      nodes |->
        << [id |-> "start", type |-> "input", data |-> [label |-> "Start"],
            position |-> Pos(400, 50), class |-> "round-start"],
           [id |-> "parallel1", type |-> "parallel",
            data |-> [label |-> "Parallel branches", branchCount |-> "3"],
            position |-> Pos(350, 150)],
           [id |-> "task1", type |-> "task",
            data |-> [label |-> "Task A", assignee |-> "Zhang San", priority |-> "high"],
            position |-> Pos(200, 280)],
           [id |-> "task2", type |-> "task",
            data |-> [label |-> "Task B", assignee |-> "Li Si", priority |-> "high"],
            position |-> Pos(350, 280)],
           [id |-> "task3", type |-> "task",
            data |-> [label |-> "Task C", assignee |-> "Wang Wu", priority |-> "high"],
            position |-> Pos(500, 280)],
           [id |-> "end", type |-> "output", data |-> [label |-> "End"],
            position |-> Pos(400, 400), class |-> "round-stop"] >>,
      edges |->
        << Edge("e-start-parallel1", "start", "parallel1", "Begin"),
           Edge("e-parallel1-task1", "parallel1", "task1", "Branch 1"),
           Edge("e-parallel1-task2", "parallel1", "task2", "Branch 2"),
           Edge("e-parallel1-task3", "parallel1", "task3", "Branch 3"),
           Edge("e-task1-end", "task1", "end", "Done"),
           Edge("e-task2-end", "task2", "end", "Done"),
           Edge("e-task3-end", "task3", "end", "Done") >>],
   notification |->
     [name |-> "Notification flow",
      nodes |->
        << [id |-> "start", type |-> "input", data |-> [label |-> "Start"],
            position |-> Pos(400, 50), class |-> "round-start"],
           [id |-> "task1", type |-> "task",
            data |-> [label |-> "Handle task", assignee |-> "Handler", priority |-> "high"],
            position |-> Pos(350, 150)],
           [id |-> "notification1", type |-> "notification",
            data |-> [label |-> "Send mail", notifyType |-> "email",
                      recipients |-> "user@example.com"],
            position |-> Pos(350, 250)],
           [id |-> "timer1", type |-> "timer", data |-> [label |-> "Delay 5 s", delay |-> "5"],
            position |-> Pos(350, 350)],
           [id |-> "end", type |-> "output", data |-> [label |-> "End"],
            position |-> Pos(400, 450), class |-> "round-stop"] >>,
      edges |->
        << Edge("e-start-task1", "start", "task1", "Begin"),
           Edge("e-task1-notification1", "task1", "notification1", "Done"),
           Edge("e-notification1-timer1", "notification1", "timer1", "Sent"),
           Edge("e-timer1-end", "timer1", "end", "Finish") >>]]

\* an entry of the template menu is chosen
handleTemplateSelect ==
  \E id \in DOMAIN templates : ask([cmd |-> "handleTemplateSelect", id |-> id])

\* the template's nodes and edges are added to the canvas, not put in its place
confirmTemplateAdds ==
  /\ dialog.cmd = "handleTemplateSelect"
  /\ dialog' = NoDialog
  /\ IsList(nodes) /\ IsList(edges)
  /\ Commit("confirmTemplate",
            List(nodes.items \o templates[dialog.id].nodes),
            List(edges.items \o templates[dialog.id].edges),
            Notice("success", "template loaded"), NoNotice)
  /\ UNCHANGED << selectionVars, clipboard, dragItem, envVars, paneReady >>

confirmTemplate ==
  /\ dialog.cmd = "handleTemplateSelect"
  /\ dialog' = NoDialog
  /\ Commit("confirmTemplate",
            JsonCopy(List(templates[dialog.id].nodes)),
            JsonCopy(List(templates[dialog.id].edges)),
            Notice("success", "template loaded"), NoNotice)
  /\ UNCHANGED << selectionVars, clipboard, dragItem, envVars, paneReady >>

\* ------------------------------------------------- local save and load
\* JSON texts: unparseable text, the text null, or an object whose nodes and
\* edges keys hold the given values (Absent: the key is missing)
Unparseable == [parse |-> "error"]
JsonNull == [parse |-> "null"]
JsonObject(n, e) == [parse |-> "object", nodes |-> n, edges |-> e]
\* localStorage.getItem returns null: nothing was ever saved
NoItem == [parse |-> "missing"]

\* JSON.stringify({ nodes, edges }), as JSON.parse will read it back
stringify(n, e) == JsonObject(JsonCopy(n), JsonCopy(e))

handleSave ==
  /\ NoBox
  /\ storage' = stringify(nodes, edges)
  /\ Nothing("handleSave", Notice("success", "workflow saved"))
  /\ UNCHANGED << selectionVars, uiVars, reading, initHooks, now, paneReady >>

handleLoad ==
  /\ NoBox
  /\ IF storage = NoItem
       THEN Nothing("handleLoad", Notice("warning", "no saved workflow"))
       ELSE IF storage.parse # "object"
         THEN Nothing("handleLoad", Notice("error", "load failed"))
         ELSE Commit("handleLoad", storage.nodes, storage.edges,
                     Notice("success", "workflow loaded"), Notice("error", "load failed"))
  /\ UNCHANGED << selectionVars, uiVars, envVars, paneReady >>

\* ------------------------------------------------------------ JSON import
importNodes ==
  << [id |-> "a", type |-> "input", data |-> [label |-> "In"], position |-> Pos(0, 0)],
     [id |-> "b", type |-> "output", data |-> [label |-> "Out"], position |-> Pos(0, 100)] >>

\* the files a user may pick
fileContents ==
  { Unparseable,
    JsonNull,
    JsonObject(Absent, Absent),
    JsonObject(List(importNodes),
               List(<< With(Edge("e-a-b", "a", "b", "go"), "data", [weight |-> "5"]) >>)),
    JsonObject(List(importNodes), List(<< Edge("e-a-x", "a", "x", "lost") >>)),
    JsonObject(List(importNodes), Absent),
    JsonObject(Falsy, List(<< >>)),
    JsonObject(Truthy, Truthy) }

\* the file input changes: the file is handed to a FileReader
handleFileChange ==
  /\ NoBox
  /\ Len(reading) < MaxReads
  /\ \E c \in fileContents : reading' = Append(reading, c)
  /\ Nothing("handleFileChange", NoNotice)
  /\ UNCHANGED << selectionVars, uiVars, storage, initHooks, now, paneReady >>

\* reader.onload: the text of the oldest pending file has arrived
readerOnload ==
  /\ reading # << >>
  /\ reading' = Tail(reading)
  /\ LET data == Head(reading)
     IN  IF data.parse # "object"
           THEN Nothing("readerOnload", Notice("error", "parse failed"))
           ELSE IF ToBoolean(data.nodes) /\ ToBoolean(data.edges)
             THEN Commit("readerOnload", data.nodes, data.edges,
                         Notice("success", "workflow imported"), Notice("error", "parse failed"))
             ELSE Nothing("readerOnload", Notice("error", "invalid file format"))
  /\ UNCHANGED << selectionVars, uiVars, storage, initHooks, now, paneReady >>

\* -------------------------------------------------------------- validation
\* allNodes.filter((n) => n.type === t)
ofType(ns, t) == SelectSeq(ns, LAMBDA n : Field(n, "type") = t)

\* new Set(allNodes.map((n) => n.id))
nodeIdSet(ns) == { IdOf(ns[k]) : k \in 1..Len(ns) }

Problem(rule, about) == [rule |-> rule, about |-> about]

\* the empty-graph rule
emptyRule(ns) == IF Len(ns) = 0 THEN << Problem("no nodes", "") >> ELSE << >>

\* an error for a count below two
missingBelowTwo(count, rule) == IF count < 2 THEN << Problem(rule, "") >> ELSE << >>

\* the error of a start or end count of zero, the warning of a count above one
missingRule(count, rule) == IF count = 0 THEN << Problem(rule, "") >> ELSE << >>
severalRule(count, rule) == IF count > 1 THEN << Problem(rule, << >>) >> ELSE << >>

\* edge.label || edge.id
edgeName(e) == OrElse(Field(e, "label"), IdOf(e))

\* one error for the edge whatever it lacks
danglingOnce(ids, e) ==
  IF Field(e, "source") \in ids /\ Field(e, "target") \in ids
    THEN << >> ELSE << Problem("source node missing", edgeName(e)) >>

\* the errors of one edge: its source is no node id, its target is no node id
danglingOf(ids, e) ==
  (IF Field(e, "source") \in ids THEN << >>
     ELSE << Problem("source node missing", edgeName(e)) >>)
  \o (IF Field(e, "target") \in ids THEN << >>
        ELSE << Problem("target node missing", edgeName(e)) >>)

RECURSIVE danglingRule(_, _)
danglingRule(ids, es) ==
  IF es = << >> THEN << >> ELSE danglingOf(ids, Head(es)) \o danglingRule(ids, Tail(es))

\* a node counts as touched only by an edge that leaves it
touchedAsSource(es, n) == \E k \in 1..Len(es) : Field(es[k], "source") = IdOf(n)

\* allEdges.some((e) => e.source === node.id || e.target === node.id)
touched(es, n) ==
  \E k \in 1..Len(es) : Field(es[k], "source") = IdOf(n) \/ Field(es[k], "target") = IdOf(n)

orphanNodes(ns, es) == SelectSeq(ns, LAMBDA n : ~touched(es, n))

\* the labels of the orphan nodes, as orphanNodes.map((n) => n.data.label)
orphanLabels(os) == [k \in 1..Len(os) |-> Field(DataOf(os[k]), "label")]

\* the one warning that lists the orphan nodes
orphanRule(os) ==
  IF Len(os) > 0 THEN << Problem("orphan nodes", orphanLabels(os)) >> ELSE << >>

\* the errors, in the order the rules push them
errorsOf(ns, es) ==
  emptyRule(ns)
  \o missingRule(Len(ofType(ns, "input")), "no start node")
  \o missingRule(Len(ofType(ns, "output")), "no end node")
  \o danglingRule(nodeIdSet(ns), es)

\* the warnings, in the order the rules push them
warningsOf(ns, es) ==
  severalRule(Len(ofType(ns, "input")), "several start nodes")
  \o severalRule(Len(ofType(ns, "output")), "several end nodes")
  \o orphanRule(orphanNodes(ns, es))

\* an alert that hides the warnings
alertErrorsOnly(outcome, errors, warnings) ==
  [cmd |-> "alert", outcome |-> outcome, errors |-> errors, warnings |-> << >>]

\* ElMessageBox.alert with the result of a validation
alert(outcome, errors, warnings) ==
  [cmd |-> "alert", outcome |-> outcome, errors |-> errors, warnings |-> warnings]

\* a validation that ends by recording a snapshot
reportAndRecord(errors, warnings) ==
  /\ dialog' = (IF Len(errors) > 0 THEN alert("failed", errors, warnings)
                ELSE IF Len(warnings) > 0 THEN alert("passed with warnings", << >>, warnings)
                ELSE dialog)
  /\ UNCHANGED graphVars
  /\ Record(nodes, edges)
  /\ Did("handleValidate", NoNotice, 1, FALSE)

\* the three ways handleValidate ends
report(errors, warnings) ==
  IF Len(errors) > 0
    THEN dialog' = alert("failed", errors, warnings)
         /\ Nothing("handleValidate", NoNotice)
    ELSE IF Len(warnings) > 0
      THEN dialog' = alert("passed with warnings", << >>, warnings)
           /\ Nothing("handleValidate", NoNotice)
      ELSE dialog' = dialog
           /\ Nothing("handleValidate", Notice("success", "validation passed"))

\* the Validate button. Reading n.data.label of an orphan node that has no
\* data raises TypeError, as does a filter or forEach on a value that is no
\* array: the handler then ends without a result
handleValidate ==
  /\ NoBox
  /\ IF IsList(nodes) /\ IsList(edges)
          /\ \A k \in 1..Len(nodes.items) :
                touched(edges.items, nodes.items[k]) \/ "data" \in DOMAIN nodes.items[k]
       THEN report(errorsOf(nodes.items, edges.items), warningsOf(nodes.items, edges.items))
       ELSE dialog' = dialog /\ Nothing("handleValidate", NoNotice)
  /\ UNCHANGED << selectionVars, clipboard, dragItem, envVars, paneReady >>

\* the OK button of the alert
closeAlert ==
  /\ dialog.cmd = "alert"
  /\ dialog' = NoDialog
  /\ Nothing("closeAlert", NoNotice)
  /\ UNCHANGED << selectionVars, clipboard, dragItem, envVars, paneReady >>

\* ------------------------------------------------- the undo/redo round trip
\* The handlers that complete one of the graph-mutating actions: drop, paste,
\* node and edge edit, node and edge delete, connect, template load, import,
\* clear.
mutatingActions ==
  { "onDrop", "handlePaste", "handleSaveNode", "handleSaveEdge", "confirmDeleteNode",
    "confirmDeleteEdge", "onConnect", "confirmTemplate", "readerOnload", "confirmClear" }

\* trip follows a run of the form: initialisation, n mutating actions, then u
\* undo calls, then r redo calls; it keeps the graph as it stood after the
\* last mutating action.  NoTrip: the run is not of that form.
NoTrip == [n |-> -1, u |-> 0, r |-> 0, nodes |-> Absent, edges |-> Absent]

tripAfter(t, l, n, e) ==
  IF l.op = "onInit" THEN [n |-> 0, u |-> 0, r |-> 0, nodes |-> n, edges |-> e]
  ELSE IF t.n < 0 THEN t
  ELSE IF l.mutated
    THEN IF l.op \in mutatingActions /\ t.u = 0
           THEN [t EXCEPT !.n = @ + 1, !.nodes = n, !.edges = e]
           ELSE NoTrip
  ELSE IF l.op = "undo"
    THEN IF t.r = 0 /\ t.u < t.n THEN [t EXCEPT !.u = @ + 1] ELSE NoTrip
  ELSE IF l.op = "redo"
    THEN IF t.u = t.n /\ t.r < t.n THEN [t EXCEPT !.r = @ + 1] ELSE NoTrip
  ELSE t

Trip == trip' = tripAfter(trip, last', nodes', edges')

\* what the slot may hold when the editor opens: nothing, or what an earlier
\* session or another page of the site left there
storedContents ==
  { NoItem,
    Unparseable,
    JsonObject(List(importNodes), Absent),
    JsonObject(Truthy, List(<< >>)) }

\* ---------------------------------------------------------------- Init
\* the editor as constructed, with st in the local storage slot
InitWith(st) ==
  /\ nodes = List(seedNodes)
  /\ edges = List(seedEdges)
  /\ history = << >>
  /\ historyIndex = -1
  /\ updateState = ""
  /\ selectedNode = EmptyObject
  /\ selectedEdge = EmptyObject
  /\ clipboard = Null
  /\ dragItem = Null
  /\ storage = st
  /\ dialog = NoDialog
  /\ reading = << >>
  /\ initHooks = 0
  /\ now = 0
  /\ paneReady = FALSE
  /\ last = [op |-> "setup", notice |-> NoNotice, recorded |-> 0, mutated |-> FALSE,
             redoTail |-> 0]
  /\ ops = 0
  /\ trip = NoTrip

Init == InitWith(NoItem)

\* a user event: it counts against the budget of the run
User == ops < MaxOps /\ ops' = ops + 1 /\ Trip
\* an event of the environment
System == UNCHANGED ops /\ Trip

\* where a node can be dragged to
dragTargets == { Pos(600, 150) }

moveSomeNode ==
  /\ IsList(nodes)
  /\ \E k \in Reachable(nodes.items), p \in dragTargets :
       /\ IdOf(nodes.items[k]) # Undefined
       /\ onNodeDragStop(IdOf(nodes.items[k]), p)

\* ------------------------------------- selection, panels and graph edits
Next ==
  \/ onInit /\ System
  \/ readerOnload /\ System
  \/ handleFileChange /\ User
  \/ onNodeClick /\ User
  \/ onEdgeClick /\ User
  \/ handleClosePanel /\ User
  \/ handleSaveNode /\ User
  \/ handleSaveEdge /\ User
  \/ handleDeleteNode /\ User
  \/ handleDeleteEdge /\ User
  \/ cancel /\ User
  \/ confirmDeleteNode /\ User
  \/ confirmDeleteEdge /\ User
  \/ undo /\ User
  \/ redo /\ User

Spec == Init /\ [][Next]_vars

\* --------------------------------- palette, clipboard and whole-graph edits
NextAuthoring ==
  \/ onInit /\ System
  \/ onNodesInitialized /\ System
  \/ tick /\ UNCHANGED << ops, trip >>
  \/ onDragStart /\ User
  \/ onDragEnd /\ User
  \/ onDrop /\ User
  \/ onNodeClick /\ User
  \/ handleCopy /\ User
  \/ handlePaste /\ User
  \/ moveSomeNode /\ User
  \/ onConnect /\ User
  \/ handleClear /\ User
  \/ handleTemplateSelect /\ User
  \/ cancel /\ User
  \/ confirmClear /\ User
  \/ confirmTemplate /\ User
  \/ undo /\ User
  \/ redo /\ User

SpecAuthoring == Init /\ [][NextAuthoring]_vars

\* ------------------------------------------- local save/load and import
InitIO == \E st \in storedContents : InitWith(st)

NextIO ==
  \/ onInit /\ System
  \/ readerOnload /\ System
  \/ handleFileChange /\ User
  \/ handleSave /\ User
  \/ handleLoad /\ User
  \/ undo /\ User
  \/ redo /\ User

SpecIO == InitIO /\ [][NextIO]_vars

\* ------------------------------------------- the history specification
\* Recording, undo and redo alone, run past the capacity of the history:
\* the recorded action is a drag of node task1 one pixel to the right.
dragTask1 ==
  /\ IsList(nodes)
  /\ \E k \in 1..Len(nodes.items) :
       /\ IdOf(nodes.items[k]) = "task1"
       /\ nodes.items[k].position.x < seedNodes[2].position.x + MaxMoves
       /\ onNodeDragStop("task1", Pos(nodes.items[k].position.x + 1,
                                      nodes.items[k].position.y))

NextHistory ==
  \/ onInit /\ UNCHANGED << ops, trip >>
  \/ dragTask1 /\ UNCHANGED << ops, trip >>
  \/ undo /\ UNCHANGED << ops, trip >>
  \/ redo /\ UNCHANGED << ops, trip >>

SpecHistory == Init /\ [][NextHistory]_vars

\* ------------------------------------- selection, clipboard and panels
NextSelection ==
  \/ onInit /\ System
  \/ tick /\ UNCHANGED << ops, trip >>
  \/ onNodeClick /\ User
  \/ onEdgeClick /\ User
  \/ handleClosePanel /\ User
  \/ handleCopy /\ User
  \/ handlePaste /\ User
  \/ handleSaveNode /\ User
  \/ handleSaveEdge /\ User
  \/ handleDeleteNode /\ User
  \/ handleDeleteEdge /\ User
  \/ cancel /\ User
  \/ confirmDeleteNode /\ User
  \/ confirmDeleteEdge /\ User
  \/ handleValidate /\ User

SpecSelection == Init /\ [][NextSelection]_vars

\* ------------------------------------------ commands that ask for confirmation
\* the editor once the canvas has reported ready: onInit has recorded the
\* seed graph
InitReady ==
  /\ nodes = List(seedNodes)
  /\ edges = List(seedEdges)
  /\ history = << snapshot(List(seedNodes), List(seedEdges)) >>
  /\ historyIndex = 0
  /\ updateState = ""
  /\ selectedNode = EmptyObject
  /\ selectedEdge = EmptyObject
  /\ clipboard = Null
  /\ dragItem = Null
  /\ storage = NoItem
  /\ dialog = NoDialog
  /\ reading = << >>
  /\ initHooks = 0
  /\ now = 0
  /\ paneReady = TRUE
  /\ last = [op |-> "onInit", notice |-> NoNotice, recorded |-> 1, mutated |-> FALSE,
             redoTail |-> 0]
  /\ ops = 0
  /\ trip = [n |-> 0, u |-> 0, r |-> 0, nodes |-> List(seedNodes), edges |-> List(seedEdges)]

NextConfirm ==
  \/ onNodeClick /\ User
  \/ onEdgeClick /\ User
  \/ handleDeleteNode /\ User
  \/ handleDeleteEdge /\ User
  \/ handleTemplateSelect /\ User
  \/ handleClear /\ User
  \/ cancel /\ User
  \/ confirmDeleteNode /\ User
  \/ confirmDeleteEdge /\ User
  \/ confirmTemplate /\ User
  \/ confirmClear /\ User
  \/ undo /\ User
  \/ redo /\ User

SpecConfirm == InitReady /\ [][NextConfirm]_vars

\* ------------------------------------------------ templates and edits
\* Opening the template box does not count against the budget of user
\* events: nothing but its confirmation or cancellation can follow it.
NextTemplate ==
  \/ handleTemplateSelect /\ System
  \/ cancel /\ User
  \/ confirmTemplate /\ User
  \/ moveSomeNode /\ User
  \/ onConnect /\ User
  \/ undo /\ User
  \/ redo /\ User

SpecTemplate == InitReady /\ [][NextTemplate]_vars

\* ------------------------------------ editing without import or local load
NextIntegrity ==
  \/ onNodesInitialized /\ System
  \/ onDragStart /\ User
  \/ onDrop /\ User
  \/ onNodeClick /\ User
  \/ onEdgeClick /\ User
  \/ handleCopy /\ User
  \/ handlePaste /\ User
  \/ onConnect /\ User
  \/ handleSaveNode /\ User
  \/ handleSaveEdge /\ User
  \/ handleDeleteNode /\ User
  \/ handleDeleteEdge /\ User
  \/ handleTemplateSelect /\ User
  \/ handleClear /\ User
  \/ cancel /\ User
  \/ confirmDeleteNode /\ User
  \/ confirmDeleteEdge /\ User
  \/ confirmTemplate /\ User
  \/ confirmClear /\ User
  \/ undo /\ User
  \/ redo /\ User

SpecIntegrity == InitReady /\ [][NextIntegrity]_vars

\* ------------------------------------------------ drags from the palette
NextPalette ==
  \/ onNodesInitialized /\ System
  \/ tick /\ UNCHANGED << ops, trip >>
  \/ onDragStart /\ User
  \/ onDragEnd /\ User
  \/ onDrop /\ User
  \/ undo /\ User
  \/ redo /\ User

SpecPalette == InitReady /\ [][NextPalette]_vars

\* ------------------------------------------------------------ validation
\* The graphs put before the validator: every selection, in order, of the
\* nodes below with every selection of the edges below.  x and y are ids of
\* no node.
validationNodes ==
  << [id |-> "s", type |-> "input", data |-> [label |-> "S"], position |-> Pos(0, 0)],
     [id |-> "s2", type |-> "input", data |-> [label |-> "S2"], position |-> Pos(100, 0)],
     [id |-> "t", type |-> "task", data |-> [label |-> "T"], position |-> Pos(0, 100)],
     [id |-> "e", type |-> "output", data |-> [label |-> "E"], position |-> Pos(0, 200)],
     [id |-> "e2", type |-> "output", data |-> [label |-> "E2"], position |-> Pos(100, 200)] >>

validationEdges ==
  << Edge("e-s-t", "s", "t", "st"),
     Edge("e-t-e", "t", "e", "te"),
     Edge("e-e-t", "e", "t", "et"),
     Edge("e-x-e", "x", "e", ""),
     Edge("e-t-y", "t", "y", "ty"),
     Edge("e-x-y", "x", "y", "xy"),
     Edge("e-t-t", "t", "t", "tt") >>

\* the items of pool at the positions in I, in the order of pool
pick(pool, I) ==
  LET F[k \in 0..Len(pool)] ==
        IF k = 0 THEN << >>
        ELSE IF k \in I THEN Append(F[k - 1], pool[k]) ELSE F[k - 1]
  IN  F[Len(pool)]

validationGraphs ==
  { [nodes |-> List(pick(validationNodes, I)), edges |-> List(pick(validationEdges, J))] :
      I \in SUBSET (1..Len(validationNodes)), J \in SUBSET (1..Len(validationEdges)) }

\* the editor after it opened with the seed graph and a file holding graph g
\* was imported
InitValidate ==
  \E g \in validationGraphs :
    /\ nodes = g.nodes
    /\ edges = g.edges
    /\ history = << snapshot(List(seedNodes), List(seedEdges)), snapshot(g.nodes, g.edges) >>
    /\ historyIndex = 1
    /\ updateState = ""
    /\ selectedNode = EmptyObject
    /\ selectedEdge = EmptyObject
    /\ clipboard = Null
    /\ dragItem = Null
    /\ storage = NoItem
    /\ dialog = NoDialog
    /\ reading = << >>
    /\ initHooks = 0
    /\ now = 0
    /\ paneReady = TRUE
    /\ last = [op |-> "readerOnload", notice |-> Notice("success", "workflow imported"),
               recorded |-> 1, mutated |-> TRUE, redoTail |-> 0]
    /\ ops = 0
    /\ trip = NoTrip

NextValidate ==
  \/ handleValidate /\ User
  \/ closeAlert /\ User
  \/ undo /\ User
  \/ redo /\ User

SpecValidate == InitValidate /\ [][NextValidate]_vars

\* =================================================================== claims
live == [nodes |-> nodes, edges |-> edges]
liveNext == [nodes |-> nodes', edges |-> edges']
seedSnapshot == [nodes |-> List(seedNodes), edges |-> List(seedEdges)]
\* the number of places of s that hold v
Occ(s, v) == Cardinality({k \in 1..Len(s) : s[k] = v})

\* C1: after any sequence of record, undo and redo calls the index is a valid
\* position of the history, or the history is empty and the index is -1.
C1_IndexInvariant ==
  \/ 0 <= historyIndex /\ historyIndex < Len(history)
  \/ Len(history) = 0 /\ historyIndex = -1

\* a repeated undo at the lower end of a full history whose first snapshot
\* has been evicted
C1_Witness ==
  /\ last.op = "undo"
  /\ last.notice.type = "warning"
  /\ Len(history) = maxHistory
  /\ historyIndex = 0
  /\ history[1] # seedSnapshot

\* C2: after initialisation, N mutating actions, N undo calls and N redo
\* calls leave the live graph equal to the graph as it stood before the first
\* undo.
C2_RoundTrip ==
  (trip.n >= 1 /\ trip.u = trip.n /\ trip.r = trip.n)
    => (nodes = trip.nodes /\ edges = trip.edges)

\* C3: the history never holds more than maxHistory snapshots, and a record
\* made with maxHistory snapshots stored and the index at the last one evicts
\* the oldest, keeps the others in order, puts the new snapshot last and
\* leaves the index at the last position.
C3_Capacity ==
  [][ /\ Len(history') <= maxHistory
      /\ (Len(history) = maxHistory /\ historyIndex = maxHistory - 1 /\ last'.recorded = 1)
           => /\ Len(history') = maxHistory
              /\ \A k \in 1..(maxHistory - 1) : history'[k] = history[k + 1]
              /\ history'[maxHistory] = liveNext
              /\ historyIndex' = maxHistory - 1 ]_vars

\* a record has just evicted the snapshot of the seed graph
C3_Witness ==
  /\ last.recorded = 1
  /\ last.redoTail = 0
  /\ Len(history) = maxHistory
  /\ history[1] # seedSnapshot
  /\ history[maxHistory] = live

\* C4: a confirmed delete of the selected node X removes the nodes with id X
\* and the edges whose source or target is X, and nothing else.
C4_DeleteNode ==
  [][ last'.op = "confirmDeleteNode" =>
        LET X == IdOf(selectedNode)
            touches(e) == Field(e, "source") = X \/ Field(e, "target") = X
            ns == nodes.items
            es == edges.items
            ns2 == nodes'.items
            es2 == edges'.items
        IN  /\ nodes'.kind = nodes.kind
            /\ edges'.kind = edges.kind
            /\ \A k \in 1..Len(ns2) : IdOf(ns2[k]) # X /\ Occ(ns, ns2[k]) = Occ(ns2, ns2[k])
            /\ \A k \in 1..Len(ns) : IdOf(ns[k]) # X => Occ(ns2, ns[k]) = Occ(ns, ns[k])
            /\ \A k \in 1..Len(es2) : ~touches(es2[k]) /\ Occ(es, es2[k]) = Occ(es2, es2[k])
            /\ \A k \in 1..Len(es) : ~touches(es[k]) => Occ(es2, es[k]) = Occ(es, es[k])
    ]_vars

\* node task1 of the seed graph has been deleted, and with it its two edges
C4_Witness ==
  /\ last.op = "confirmDeleteNode"
  /\ last.recorded = 1
  /\ Len(nodes.items) = Len(seedNodes) - 1
  /\ Len(edges.items) = Len(seedEdges) - 2
  /\ \A k \in 1..Len(nodes.items) : IdOf(nodes.items[k]) # "task1"

\* C5: a local load that fails (slot missing, text unparseable, or no nodes
\* list or no edges list in it) leaves the live graph as it was and shows a
\* warning or an error.
C5_FailedLoad ==
  [][ ( /\ last'.op = "handleLoad"
        /\ \/ storage = NoItem
           \/ storage.parse # "object"
           \/ ~IsList(storage.nodes)
           \/ ~IsList(storage.edges) )
        => /\ nodes' = nodes
           /\ edges' = edges
           /\ last'.notice.type \in {"warning", "error"} ]_vars

\* the history after one entry, the live graph, was appended at the index
oneEntryAppended ==
  /\ Len(history') = historyIndex + 2
  /\ \A k \in 1..(historyIndex + 1) : history'[k] = history[k]
  /\ history'[historyIndex + 2] = liveNext
  /\ historyIndex' = historyIndex + 1

imported(c) ==
  /\ nodes' = c.nodes
  /\ edges' = c.edges
  /\ oneEntryAppended
  /\ last'.notice = Notice("success", "workflow imported")

rejected(text) ==
  /\ UNCHANGED << nodes, edges, history, historyIndex >>
  /\ last'.notice = Notice("error", text)

\* C6, as claimed: content with both a nodes and an edges field replaces the
\* graph and appends one history entry; content lacking either field changes
\* nothing and reports an invalid format; unparseable text changes nothing
\* and reports a failed parse.
C6_AsClaimed ==
  [][ last'.op = "readerOnload" =>
        LET c == Head(reading)
        IN  IF c.parse = "error" THEN rejected("parse failed")
            ELSE IF c.parse = "object" /\ c.nodes.kind # "undefined"
                                       /\ c.edges.kind # "undefined"
              THEN imported(c)
              ELSE rejected("invalid file format") ]_vars

\* C6, amended: the graph is replaced, and one history entry appended, when
\* the nodes and the edges field both hold a truthy value; a parsed value
\* other than null in which either field is missing or falsy changes nothing
\* and reports an invalid format; unparseable text and the text null change
\* nothing and report a failed parse.
C6_Import ==
  [][ last'.op = "readerOnload" =>
        LET c == Head(reading)
        IN  IF c.parse \in {"error", "null"} THEN rejected("parse failed")
            ELSE IF c.nodes.kind \in {"list", "truthy"} /\ c.edges.kind \in {"list", "truthy"}
              THEN imported(c)
              ELSE rejected("invalid file format") ]_vars

\* a file with both lists was imported over an undone state: the graph is the
\* file's and the history ends with it
C6_Witness ==
  /\ last.op = "readerOnload"
  /\ last.notice = Notice("success", "workflow imported")
  /\ nodes = List(importNodes)
  /\ Len(history) >= 2
  /\ history[Len(history)] = live

\* C7: in every reachable state nodes is a list and edges is a list.
C7_WellFormed == IsList(nodes) /\ IsList(edges)

\* C8: undo at or below index 0 and redo at the last index change neither the
\* graph nor the history nor the index and show a warning; otherwise the
\* index moves by exactly one and the graph becomes the snapshot at the new
\* index.
C8_UndoRedo ==
  [][ /\ last'.op = "undo" =>
           IF historyIndex <= 0
             THEN /\ UNCHANGED << nodes, edges, history, historyIndex >>
                  /\ last'.notice.type = "warning"
             ELSE /\ historyIndex' = historyIndex - 1
                  /\ history' = history
                  /\ liveNext = history[historyIndex' + 1]
      /\ last'.op = "redo" =>
           IF historyIndex >= Len(history) - 1
             THEN /\ UNCHANGED << nodes, edges, history, historyIndex >>
                  /\ last'.notice.type = "warning"
             ELSE /\ historyIndex' = historyIndex + 1
                  /\ history' = history
                  /\ liveNext = history[historyIndex' + 1] ]_vars

\* an undo has restored the first of several snapshots, which differs from
\* the one after it
C8_Witness ==
  /\ last.op = "undo"
  /\ last.notice.type = "success"
  /\ historyIndex = 0
  /\ Len(history) >= 2
  /\ live = history[1]
  /\ history[1] # history[2]

\* C9: after a record the index is the last position, the snapshots beyond
\* the previous index are gone, those up to it are retained in order (less
\* the oldest when the capacity is exceeded), and redo has nothing to redo.
C9_RecordDropsRedoTail ==
  [][ last'.recorded = 1 =>
        LET keep == historyIndex + 1
            drop == IF keep + 1 > maxHistory THEN 1 ELSE 0
        IN  /\ historyIndex' = Len(history') - 1
            /\ Len(history') = keep + 1 - drop
            /\ \A k \in 1..(keep - drop) : history'[k] = history[k + drop]
            /\ history'[Len(history')] = liveNext
            /\ ~(historyIndex' < Len(history') - 1) ]_vars

\* a record has just dropped a redo tail
C9_Witness ==
  /\ last.recorded = 1
  /\ last.redoTail > 0
  /\ historyIndex = Len(history) - 1
  /\ Len(history) >= 2

\* C10: every graph-mutating action is followed, within the same handler, by
\* exactly one record, whose snapshot is structurally equal to the live graph
\* the handler leaves.
C10_RecordAfterMutation ==
  (last.mutated /\ last.op \in mutatingActions)
    => /\ last.recorded = 1
       /\ historyIndex >= 0
       /\ history[historyIndex + 1] = live

\* C11: a selected node and a selected edge are never held together, and a
\* copy acts only while the selection state is that of a selected node.
C11_OneSelection ==
  [][ /\ ~(IdOf(selectedNode') # Undefined /\ IdOf(selectedEdge') # Undefined)
      /\ last'.op = "handleCopy" => updateState = "node" ]_vars

savedLast(c) == c.items[Len(c.items)]

\* data d2 is data d1 with the form f merged in: what d1 held under a key
\* the form does not name is kept, what d2 holds under a key the form names
\* is the form's value
mergedInto(d1, f, d2) ==
  /\ \A k \in DOMAIN d1 \ DOMAIN f : k \in DOMAIN d2 /\ d2[k] = d1[k]
  /\ \A k \in DOMAIN d2 \cap DOMAIN f : d2[k] = f[k]

\* C13: saving the node form, and saving the edge form, leaves the selected
\* entity's data payload with the form merged in and nothing lost.
C13_ShallowMerge ==
  [][ /\ (last'.op = "handleSaveNode" /\ last'.mutated) =>
           \E edit \in nodeEdits :
             mergedInto(DataOf(selectedNode), Merge(nodeForm(selectedNode), edit),
                        DataOf(savedLast(nodes')))
      /\ (last'.op = "handleSaveEdge" /\ last'.mutated) =>
           \E edit \in edgeEdits :
             mergedInto(DataOf(selectedEdge), Merge(edgeForm(selectedEdge), edit),
                        DataOf(savedLast(edges'))) ]_vars

\* the positions in the list ns of the nodes with id i
withId(ns, i) == {k \in 1..Len(ns) : IdOf(ns[k]) = i}

\* C14: a paste that follows a copy adds one node, at the end and with an id
\* no node had; its position is the source node's plus (50, 50) and its data
\* payload is the one the source node has in the live graph.
C14_CopyPaste ==
  [][ (last.op = "handleCopy" /\ last'.op = "handlePaste"
         /\ withId(nodes.items, IdOf(clipboard)) # {}) =>
        LET src == nodes.items[CHOOSE k \in withId(nodes.items, IdOf(clipboard)) : TRUE]
            new == nodes'.items[Len(nodes'.items)]
        IN  /\ Len(nodes'.items) = Len(nodes.items) + 1
            /\ SubSeq(nodes'.items, 1, Len(nodes.items)) = nodes.items
            /\ withId(nodes.items, IdOf(new)) = {}
            /\ new.position = [x |-> src.position.x + 50, y |-> src.position.y + 50]
            /\ DataOf(new) = DataOf(src) ]_vars

\* C15: no two nodes of the live graph have the same id.
C15_UniqueIds ==
  \A j, k \in 1..Len(nodes.items) : j # k => IdOf(nodes.items[j]) # IdOf(nodes.items[k])

\* the ids of the live nodes, and how many live nodes are of type t
liveIds == { IdOf(nodes.items[k]) : k \in 1..Len(nodes.items) }
liveCount(t) == Cardinality({ k \in 1..Len(nodes.items) : Field(nodes.items[k], "type") = t })

\* the endpoints (0, 1 or 2) of edge e that are the id of no live node
missingEnds(e) ==
  (IF Field(e, "source") \in liveIds THEN 0 ELSE 1)
  + (IF Field(e, "target") \in liveIds THEN 0 ELSE 1)

\* the positions of the live edges with a missing endpoint
danglingEdges == { k \in 1..Len(edges.items) : missingEnds(edges.items[k]) > 0 }

\* no start node, at least one end node, exactly one dangling edge
noStartOneDangling ==
  /\ liveCount("input") = 0
  /\ liveCount("output") >= 1
  /\ Cardinality(danglingEdges) = 1

\* C16, as claimed: validating a graph with no start node, an end node and
\* one dangling edge reports exactly two errors.
C16_AsClaimed ==
  [][ (last'.op = "handleValidate" /\ noStartOneDangling) =>
        /\ dialog'.cmd = "alert"
        /\ Len(dialog'.errors) = 2 ]_vars

\* C16, amended: validating such a graph reports the missing start node and
\* then one error for each endpoint the dangling edge lacks: two errors when
\* it lacks one endpoint, three when it lacks both.
C16_ErrorPerEndpoint ==
  [][ (last'.op = "handleValidate" /\ noStartOneDangling) =>
        LET e == edges.items[CHOOSE k \in danglingEdges : TRUE]
        IN  /\ dialog'.cmd = "alert"
            /\ dialog'.outcome = "failed"
            /\ Len(dialog'.errors) = 1 + missingEnds(e)
            /\ dialog'.errors[1].rule = "no start node"
            /\ \A k \in 2..Len(dialog'.errors) :
                  /\ dialog'.errors[k].rule \in {"source node missing", "target node missing"}
                  /\ dialog'.errors[k].about
                       = (IF Field(e, "label") = "" THEN IdOf(e) ELSE Field(e, "label")) ]_vars

\* the validator has reported on a graph with no start node whose one
\* dangling edge lacks both endpoints: three errors
C16_Witness ==
  /\ last.op = "handleValidate"
  /\ noStartOneDangling
  /\ dialog.cmd = "alert"
  /\ Len(dialog.errors) = 3
  /\ \E k \in danglingEdges : missingEnds(edges.items[k]) = 2

\* the validator ended with the success notice and opened no box
passed ==
  /\ last'.notice = [type |-> "success", text |-> "validation passed"]
  /\ dialog' = dialog

\* C17: validating the seed graph reports success: no error, no warning.
C17_SeedValid ==
  [][ (last'.op = "handleValidate" /\ nodes = List(seedNodes) /\ edges = List(seedEdges))
        => passed ]_vars

\* the seed graph has been validated and the success notice shown
C17_Witness ==
  /\ last.op = "handleValidate"
  /\ last.notice.type = "success"
  /\ nodes = List(seedNodes)
  /\ edges = List(seedEdges)
  /\ dialog = [cmd |-> "none"]

\* the live nodes that no live edge names as its source or its target
untouched ==
  { k \in 1..Len(nodes.items) :
      \A j \in 1..Len(edges.items) :
        /\ Field(edges.items[j], "source") # IdOf(nodes.items[k])
        /\ Field(edges.items[j], "target") # IdOf(nodes.items[k]) }

\* the total of a function from a finite set to the naturals
RECURSIVE sum(_, _)
sum(f, S) == IF S = {} THEN 0 ELSE LET x == CHOOSE x \in S : TRUE IN f[x] + sum(f, S \ {x})

\* how many errors and warnings the rules call for
errorsDue ==
  (IF Len(nodes.items) = 0 THEN 1 ELSE 0)
  + (IF liveCount("input") = 0 THEN 1 ELSE 0)
  + (IF liveCount("output") = 0 THEN 1 ELSE 0)
  + sum([k \in 1..Len(edges.items) |-> missingEnds(edges.items[k])], 1..Len(edges.items))
warningsDue ==
  (IF liveCount("input") > 1 THEN 1 ELSE 0)
  + (IF liveCount("output") > 1 THEN 1 ELSE 0)
  + (IF untouched # {} THEN 1 ELSE 0)

\* the place of a rule in the order of the rules
rank(rule) ==
  CASE rule = "no nodes" -> 1
    [] rule \in {"no start node", "several start nodes"} -> 2
    [] rule \in {"no end node", "several end nodes"} -> 3
    [] rule \in {"source node missing", "target node missing"} -> 4
    [] rule = "orphan nodes" -> 5

inRuleOrder(ps) == \A j, k \in 1..Len(ps) : j < k => rank(ps[j].rule) <= rank(ps[k].rule)

\* C18: the validation fails, showing the errors and with them the warnings,
\* exactly when a rule calls for an error; it passes with warnings exactly
\* when only warnings are called for; it reports success exactly when
\* nothing is called for; errors and warnings come in the order of the rules.
C18_Outcome ==
  [][ last'.op = "handleValidate" =>
        IF errorsDue > 0
          THEN /\ dialog'.cmd = "alert"
               /\ dialog'.outcome = "failed"
               /\ Len(dialog'.errors) = errorsDue
               /\ Len(dialog'.warnings) = warningsDue
               /\ inRuleOrder(dialog'.errors)
               /\ inRuleOrder(dialog'.warnings)
               /\ last'.notice.type = "none"
        ELSE IF warningsDue > 0
          THEN /\ dialog'.cmd = "alert"
               /\ dialog'.outcome = "passed with warnings"
               /\ dialog'.errors = << >>
               /\ Len(dialog'.warnings) = warningsDue
               /\ inRuleOrder(dialog'.warnings)
               /\ last'.notice.type = "none"
        ELSE passed ]_vars

\* a validation has failed with errors of three rules and shown two
\* warnings with them
C18_Witness ==
  /\ last.op = "handleValidate"
  /\ dialog.cmd = "alert"
  /\ dialog.outcome = "failed"
  /\ Len(dialog.errors) >= 3
  /\ dialog.errors[1].rule = "no start node"
  /\ Len(dialog.warnings) = 2

\* the errors shown that name edge e
errorsNaming(e) ==
  { k \in 1..Len(dialog'.errors) :
      /\ dialog'.errors[k].rule \in {"source node missing", "target node missing"}
      /\ dialog'.errors[k].about
           = (IF Field(e, "label") = "" THEN IdOf(e) ELSE Field(e, "label")) }

\* the orphan warnings shown
orphanWarnings ==
  IF dialog'.cmd = "alert"
    THEN { k \in 1..Len(dialog'.warnings) : dialog'.warnings[k].rule = "orphan nodes" }
    ELSE {}

\* C19: the validator shows, for each edge, as many dangling-reference
\* errors as the edge has endpoints that are no node id; it shows one orphan
\* warning when some node is the source or target of no edge, listing those
\* nodes and no node that a dangling edge or a self-loop touches, and no
\* orphan warning otherwise.
C19_DanglingAndOrphans ==
  [][ last'.op = "handleValidate" =>
        /\ \A j \in 1..Len(edges.items) :
             IF missingEnds(edges.items[j]) = 0
               THEN dialog'.cmd = "alert" => errorsNaming(edges.items[j]) = {}
               ELSE /\ dialog'.cmd = "alert"
                    /\ Cardinality(errorsNaming(edges.items[j])) = missingEnds(edges.items[j])
        /\ Cardinality(orphanWarnings) = (IF untouched = {} THEN 0 ELSE 1)
        /\ \A w \in orphanWarnings :
             /\ Len(dialog'.warnings[w].about) = Cardinality(untouched)
             /\ \A k \in untouched :
                  \E m \in 1..Len(dialog'.warnings[w].about) :
                    dialog'.warnings[w].about[m] = nodes.items[k].data.label ]_vars

\* the validator has reported on a graph in which an edge lacks both
\* endpoints, node t is touched only by its self-loop and an end node is
\* touched by no edge: two errors for the edge, and the orphan warning lists
\* the end node alone
C19_Witness ==
  /\ last.op = "handleValidate"
  /\ dialog.cmd = "alert"
  /\ edges = List(<< Edge("e-x-y", "x", "y", "xy"), Edge("e-t-t", "t", "t", "tt") >>)
  /\ \E k \in 1..Len(nodes.items) : IdOf(nodes.items[k]) = "t"
  /\ Cardinality({ k \in 1..Len(dialog.errors) : dialog.errors[k].about = "xy" }) = 2
  /\ \E k \in 1..Len(dialog.warnings) :
        dialog.warnings[k] = [rule |-> "orphan nodes", about |-> << "E" >>]

\* the ids reached from the ids in R along at most n live edges
RECURSIVE reach(_, _)
reach(R, n) ==
  IF n = 0 THEN R
  ELSE reach(R \cup { Field(edges.items[k], "target") :
                        k \in { j \in 1..Len(edges.items) :
                                 Field(edges.items[j], "source") \in R } }, n - 1)

\* one start node, one end node, no dangling edge, no orphan node, and the
\* end node is not reached from the start node
endCutOff ==
  /\ liveCount("input") = 1
  /\ liveCount("output") = 1
  /\ danglingEdges = {}
  /\ untouched = {}
  /\ \E a, b \in 1..Len(nodes.items) :
        /\ Field(nodes.items[a], "type") = "input"
        /\ Field(nodes.items[b], "type") = "output"
        /\ IdOf(nodes.items[b]) \notin reach({IdOf(nodes.items[a])}, Len(nodes.items))

\* C20: a graph whose end node cannot be reached from its start node is not
\* reported as valid.
C20_Reachability ==
  [][ (last'.op = "handleValidate" /\ endCutOff) => last'.notice.type # "success" ]_vars

\* C21: a validation, whatever its outcome, leaves the nodes, the edges, the
\* history and its index, the selection and the clipboard as they were.
C21_ValidateFrame ==
  [][ last'.op = "handleValidate" =>
        UNCHANGED << nodes, edges, history, historyIndex, updateState, selectedNode,
                     selectedEdge, clipboard >> ]_vars

\* a validation has run with a node selected, a node on the clipboard and
\* snapshots in the history
C21_Witness ==
  /\ last.op = "handleValidate"
  /\ updateState = "node"
  /\ IdOf(selectedNode) # "undefined"
  /\ clipboard # [null |-> TRUE]
  /\ Len(history) >= 2

\* the requests that open a confirmation box, and the step that confirms each
requests == {"handleDeleteNode", "handleDeleteEdge", "handleTemplateSelect", "handleClear"}
confirmationOf(cmd) ==
  CASE cmd = "handleDeleteNode" -> "confirmDeleteNode"
    [] cmd = "handleDeleteEdge" -> "confirmDeleteEdge"
    [] cmd = "handleTemplateSelect" -> "confirmTemplate"
    [] cmd = "handleClear" -> "confirmClear"

\* the graph, the history with its index, and the selection stay as they are
editorUnchanged ==
  UNCHANGED << nodes, edges, history, historyIndex, updateState, selectedNode, selectedEdge >>

\* C22: a request to delete a node or an edge, to load a template or to clear
\* the canvas opens a confirmation box and changes nothing else; while the
\* box is open the only steps are its cancellation, which changes nothing,
\* and its confirmation; and a removal or replacement of this kind happens
\* only as the confirmation of an open box.
C22_Confirmation ==
  [][ /\ last'.op \in requests =>
           /\ editorUnchanged
           /\ dialog = [cmd |-> "none"]
           /\ dialog'.cmd = last'.op
      /\ dialog.cmd \in requests =>
           /\ last'.op \in {"cancel", confirmationOf(dialog.cmd)}
           /\ dialog' = [cmd |-> "none"]
      /\ last'.op = "cancel" => editorUnchanged
      /\ last'.op \in {"confirmDeleteNode", "confirmDeleteEdge", "confirmTemplate",
                        "confirmClear"} =>
           /\ dialog.cmd \in requests
           /\ last'.op = confirmationOf(dialog.cmd) ]_vars

\* the deletion of a selected node was requested and then cancelled: the
\* node is still selected and the seed graph is still the live graph
C22_Witness ==
  /\ last.op = "cancel"
  /\ updateState = "node"
  /\ IdOf(selectedNode) # "undefined"
  /\ dialog = [cmd |-> "none"]
  /\ nodes = List(seedNodes)
  /\ edges = List(seedEdges)
  /\ Len(history) = 1

\* C23: a confirmed template load makes the chosen template's nodes and
\* edges the live graph, whatever the graph was, and appends one history
\* entry holding them; every load of a template gives the same graph.
C23_TemplateLoad ==
  [][ last'.op = "confirmTemplate" =>
        /\ nodes' = [kind |-> "list", items |-> templates[dialog.id].nodes]
        /\ edges' = [kind |-> "list", items |-> templates[dialog.id].edges]
        /\ oneEntryAppended ]_vars

\* a template was loaded, the loaded graph was edited, and the same template
\* was loaded again: the live graph is the template's, as after the first load
C23_Witness ==
  /\ last.op = "confirmTemplate"
  /\ historyIndex >= 3
  /\ \E id \in DOMAIN templates : nodes.items = templates[id].nodes
  /\ history[historyIndex + 1] = live
  /\ history[historyIndex - 1] = live
  /\ history[historyIndex] # live

\* C24: a step leaves every stored snapshot as it was recorded: the history
\* either stays as it is, or it becomes the snapshots up to the index, less
\* the oldest when the capacity is reached, followed by one new snapshot.
C24_SnapshotsImmutable ==
  [][ \/ history' = history
      \/ LET kept == SubSeq(history, 1, historyIndex + 1)
             before == SubSeq(history', 1, Len(history') - 1)
         IN  /\ Len(history') >= 1
             /\ \/ before = kept
                \/ Len(kept) = maxHistory /\ before = Tail(kept) ]_vars

\* the live graph was edited right after an undo restored a snapshot: the
\* restored snapshot is still stored, before the new one, and differs from it
C24_Witness ==
  /\ last.op = "onNodeDragStop"
  /\ last.recorded = 1
  /\ last.redoTail > 0
  /\ historyIndex >= 2
  /\ history[historyIndex + 1] = live
  /\ history[historyIndex] # live

\* the node at the end of the live collection before and after the step
lastNode == nodes.items[Len(nodes.items)]
lastNodeNext == nodes'.items[Len(nodes'.items)]

\* C25: only a copy changes the clipboard; a paste leaves it as it is and
\* adds, at the clipboard node's position plus (50, 50), a node whose id no
\* node of the graph has, so that the nodes of repeated pastes have distinct
\* ids.
C25_Clipboard ==
  [][ /\ clipboard' # clipboard => last'.op = "handleCopy"
      /\ (ops' # ops /\ last'.op = "handlePaste") =>
           /\ clipboard' = clipboard
           /\ Len(nodes'.items) = Len(nodes.items) + 1
           /\ lastNodeNext.position
                = [x |-> clipboard.position.x + 50, y |-> clipboard.position.y + 50]
           /\ \A k \in 1..Len(nodes.items) : IdOf(nodes.items[k]) # IdOf(lastNodeNext) ]_vars

\* the last handler was a drop that added a node with an id
droppedNode ==
  /\ last.op = "onDrop"
  /\ historyIndex >= 1
  /\ Len(nodes.items) = Len(history[historyIndex].nodes.items) + 1
  /\ IdOf(lastNode) # "undefined"

\* C26: when the canvas reports the dropped node's size, the node moves up
\* and left of its drop anchor by half its width and half its height.
C26_Recentre ==
  [][ (droppedNode /\ last' # last /\ last'.op = "onNodesInitialized") =>
        \E d \in renderedSizes :
          lastNodeNext.position = [x |-> lastNode.position.x - d.width \div 2,
                                   y |-> lastNode.position.y - d.height \div 2] ]_vars

\* C27: the end of a drag without a drop discards the pending descriptor and
\* leaves the nodes, the edges and the history as they were; a descriptor
\* exists only from the start of its drag to that drag's end or drop, so no
\* later drop finds it.
C27_DragEnd ==
  [][ /\ last'.op = "onDragEnd" =>
           /\ dragItem' = [null |-> TRUE]
           /\ UNCHANGED << nodes, edges, history, historyIndex >>
      /\ last'.op = "onDrop" => dragItem' = [null |-> TRUE]
      /\ dragItem' # [null |-> TRUE] =>
           (dragItem' = dragItem \/ last'.op = "onDragStart") ]_vars

\* a drag started after an edit has ended without a drop
C27_Witness ==
  /\ last.op = "onDragEnd"
  /\ dragItem = [null |-> TRUE]
  /\ Len(history) >= 2
  /\ historyIndex = Len(history) - 1

\* C28: a drop that finds no pending descriptor adds no node and records no
\* snapshot: nodes, edges, history and its index stay as they were.
C28_DropWithoutDrag ==
  [][ (dragItem = [null |-> TRUE] /\ ops' # ops /\ last'.op = "onDrop") =>
        UNCHANGED << nodes, edges, history, historyIndex >> ]_vars

\* entity sel is in collection c under its id, with the data payload it has there
liveIn(c, sel) ==
  \E k \in 1..Len(c.items) :
    IdOf(c.items[k]) = IdOf(sel) /\ DataOf(c.items[k]) = DataOf(sel)

\* C29: while the node panel or the edge panel is open, the selected entity
\* is in the live graph under its id and carries the data payload the live
\* entity carries.
C29_SelectionLive ==
  /\ updateState = "node" => liveIn(nodes, selectedNode)
  /\ updateState = "edge" => liveIn(edges, selectedEdge)

\* C30: without import and local load, every edge of the graph has its source
\* and its target among the ids of the graph's nodes.
C30_Integrity == danglingEdges = {}

====
